---- MODULE Spec2Model ----
\* Model of the movies REST API: src/server.js (express handlers over the
\* in-memory `movies` array) and src/unnamed/part_000 (the zod schema,
\* required by server.js as ./schemas/movies.js).
EXTENDS Integers, Sequences, FiniteSets, TLC

\* ------------------------------------------------------------------ bounds
\* Number of crypto.randomUUID() calls the model follows.
MaxCreates == 2

\* ------------------------------------------------------------- JSON values
\* A JSON value is a record of one shape so that any two values compare:
\* a number is n + d/10 (d in 0..9), a string is s, an array of strings is a.
Str(s) == [type |-> "string", s |-> s, n |-> 0, d |-> 0, a |-> <<>>]
Num(n, d) == [type |-> "number", s |-> "", n |-> n, d |-> d, a |-> <<>>]
Arr(a) == [type |-> "array", s |-> "", n |-> 0, d |-> 0, a |-> a]

\* The value of a number in tenths, to compare it with a bound.
Tenths(v) == 10 * v.n + v.d
IsInt(v) == v.d = 0

\* An object is a function from its own keys to JSON values.
EmptyObject == [k \in {} |-> 0]
\* Mutant: the spread written the other way round, { ...b, ...a }.
SpreadFirstWins(a, b) ==
    [k \in DOMAIN a \cup DOMAIN b |-> IF k \in DOMAIN a THEN a[k] ELSE b[k]]

\* { ...a, ...b }: the keys of both, b's value where both have the key.
Spread(a, b) ==
    [k \in DOMAIN a \cup DOMAIN b |-> IF k \in DOMAIN b THEN b[k] ELSE a[k]]

\* The k-th identifier of the process. A version-4 UUID carries 122 random
\* bits; the identifiers are modelled as pairwise different.
Uuid(k) == Str("uuid-" \o ToString(k))

\* Mutant: the identifier generated once, outside the handler.
randomUUIDOnce(count) == Uuid(count)

\* crypto.randomUUID() when `count` identifiers exist already.
randomUUID(count) == Uuid(count + 1)

\* ------------------------------------------------------------------ schema
\* new Date().getFullYear(), evaluated once when the schema is built.
CurrentYear == 2026
GenreEnum == {"action", "adventure", "sci-fi", "fantasy", "drama", "crime"}
\* The keys of movieSchema, in declaration order.
SchemaKeys == <<"title", "year", "director", "duration", "genre", "rating">>
SchemaKeySet == {SchemaKeys[i] : i \in 1..Len(SchemaKeys)}
\* rating: ....default(5)
RatingDefault == Num(5, 0)

Issue(path, code) == [path |-> path, code |-> code]

\* The issues one check of a number raises (zod runs every check of a field).
NumberIssues(key, v, mustBeInt, hasMin, minT, minInclusive, hasMax, maxT) ==
    IF v.type # "number" THEN <<Issue(key, "invalid_type")>>
    ELSE (IF mustBeInt /\ ~IsInt(v) THEN <<Issue(key, "not_integer")>> ELSE <<>>)
      \o (IF hasMin /\ (IF minInclusive THEN Tenths(v) < minT ELSE Tenths(v) <= minT)
             THEN <<Issue(key, "too_small")>> ELSE <<>>)
      \o (IF hasMax /\ Tenths(v) > maxT THEN <<Issue(key, "too_big")>> ELSE <<>>)

RECURSIVE EnumIssues(_, _, _)
\* z.array(z.enum([...])): one issue for every element outside the enum.
EnumIssues(key, a, i) ==
    IF i > Len(a) THEN <<>>
    ELSE (IF a[i] \in GenreEnum THEN <<>> ELSE <<Issue(key, "invalid_enum_value")>>)
         \o EnumIssues(key, a, i + 1)

\* Mutant: the lower bound of year off by one, .min(1899).
FieldIssuesYearFrom1899(key, v) ==
    CASE key = "title" -> IF v.type = "string" THEN <<>> ELSE <<Issue(key, "invalid_type")>>
      [] key = "year" -> NumberIssues(key, v, TRUE, TRUE, 18990, TRUE, TRUE, 10 * CurrentYear)
      [] key = "director" -> IF v.type = "string" THEN <<>> ELSE <<Issue(key, "invalid_type")>>
      [] key = "duration" -> NumberIssues(key, v, TRUE, TRUE, 0, FALSE, FALSE, 0)
      [] key = "genre" -> IF v.type = "array" THEN EnumIssues(key, v.a, 1)
                                              ELSE <<Issue(key, "invalid_type")>>
      [] key = "rating" -> NumberIssues(key, v, FALSE, TRUE, 0, TRUE, TRUE, 100)

\* The issues of a present value under the schema's rule for `key`:
\* year int in [1900, CurrentYear], duration int > 0, rating in [0, 10].
FieldIssues(key, v) ==
    CASE key = "title" -> IF v.type = "string" THEN <<>> ELSE <<Issue(key, "invalid_type")>>
      [] key = "year" -> NumberIssues(key, v, TRUE, TRUE, 19000, TRUE, TRUE, 10 * CurrentYear)
      [] key = "director" -> IF v.type = "string" THEN <<>> ELSE <<Issue(key, "invalid_type")>>
      [] key = "duration" -> NumberIssues(key, v, TRUE, TRUE, 0, FALSE, FALSE, 0)
      [] key = "genre" -> IF v.type = "array" THEN EnumIssues(key, v.a, 1)
                                              ELSE <<Issue(key, "invalid_type")>>
      [] key = "rating" -> NumberIssues(key, v, FALSE, TRUE, 0, TRUE, TRUE, 100)

RECURSIVE ObjectIssues(_, _, _)
\* The issues of an object, key by key in schema order. An absent key is an
\* issue unless the key is optional (partial schema) or has a default (rating).
ObjectIssues(object, partial, i) ==
    IF i > Len(SchemaKeys) THEN <<>>
    ELSE LET key == SchemaKeys[i] IN
         (IF key \in DOMAIN object THEN FieldIssues(key, object[key])
          ELSE IF partial \/ key = "rating" THEN <<>>
          ELSE <<Issue(key, "invalid_type")>>)
         \o ObjectIssues(object, partial, i + 1)

\* What z.object keeps of the input: the schema's keys only (unknown keys such
\* as `id` are stripped), plus the default of an absent rating unless partial.
\* Mutant: a schema that passes unknown keys through (.passthrough()).
ParsedDataKeepUnknown(object, partial) ==
    IF partial \/ "rating" \in DOMAIN object THEN object
    ELSE Spread(object, [rating |-> RatingDefault])

\* Mutant: the default of rating applied by the partial schema too.
ParsedDataDefaultOnPartial(object, partial) ==
    LET kept == [k \in DOMAIN object \cap SchemaKeySet |-> object[k]] IN
    IF "rating" \in DOMAIN object THEN kept
    ELSE Spread(kept, [rating |-> RatingDefault])

\* Mutant: a schema whose rating has no default.
ParsedDataNoDefault(object, partial) ==
    [k \in DOMAIN object \cap SchemaKeySet |-> object[k]]

ParsedData(object, partial) ==
    LET kept == [k \in DOMAIN object \cap SchemaKeySet |-> object[k]] IN
    IF partial \/ "rating" \in DOMAIN object THEN kept
    ELSE Spread(kept, [rating |-> RatingDefault])

\* schema.safeParse(object): success with data, or failure with the issues.
\* `hasData` is FALSE where result.data is undefined.
SafeParse(object, partial) ==
    LET issues == ObjectIssues(object, partial, 1) IN
    IF issues = <<>>
    THEN [success |-> TRUE, hasData |-> TRUE, data |-> ParsedData(object, partial),
          issues |-> <<>>]
    ELSE [success |-> FALSE, hasData |-> FALSE, data |-> EmptyObject,
          issues |-> issues]

validateMovie(object) == SafeParse(object, FALSE)
validateMoviePartial(object) == SafeParse(object, TRUE)

\* ------------------------------------------------------------------ server
VARIABLES
    movies,      \* the in-memory array `movies` (server.js:21)
    uuidCount,   \* how many identifiers exist so far (seeded and generated)
    req,         \* the request handled last
    res,         \* the response to it
    before,      \* history: `movies` as it was when that request arrived
    inserted,    \* history: every id ever put in `movies`, in insertion order
    submitted,   \* history: id -> body of the accepted POST that created it,
                 \* kept until a PATCH changes or a DELETE removes the resource
    wrote        \* history: the handler reached a statement that writes
                 \* `movies` (push, movies[movieIndex] = .., splice)

vars == <<movies, uuidCount, req, res, before, inserted, submitted, wrote>>

ACCEPTED_ORIGINS ==
    {"http://localhost:8080", "http://localhost:1234", "https://movies.com"}

\* The value of an absent Origin header and of an absent ?genre= parameter.
NoOrigin == "<undefined>"
NoGenre == "<undefined>"

\* movies.json: the bundled dataset, resources that satisfy the schema. The
\* file is not among the sources; one resource stands for its content.
SeedMovies ==
    << [id |-> Uuid(1), title |-> Str("Seed"), year |-> Num(1994, 0),
        director |-> Str("S"), duration |-> Num(142, 0),
        genre |-> Arr(<<"drama", "crime">>), rating |-> Num(9, 3)] >>
\* The identifiers that exist when the process starts.
NSeed == Len(SeedMovies)

\* String.prototype.toLowerCase on the strings of the model.
ToLowerCase(s) ==
    CASE s = "ACTION" -> "action"
      [] s = "Action" -> "action"
      [] s = "DRAMA" -> "drama"
      [] OTHER -> s

\* ---------------------------------------------------------------- requests
FullA ==
    [title |-> Str("X"), year |-> Num(2000, 0), director |-> Str("D"),
     duration |-> Num(90, 0), genre |-> Arr(<<"drama">>)]
FullB ==
    [id |-> Uuid(1), title |-> Str("Y"), year |-> Num(CurrentYear, 0),
     director |-> Str("D"), duration |-> Num(1, 0),
     genre |-> Arr(<<"action", "sci-fi">>), rating |-> Num(7, 5)]
BadYear == [FullA EXCEPT !.year = Num(1899, 0)]
PartialGenreId == [genre |-> Arr(<<"crime">>), id |-> Uuid(2)]
BadTitle == [title |-> Num(5, 0), year |-> Num(1999, 0), id |-> Uuid(2)]

PostBodies == {FullA, FullB, BadYear, EmptyObject}
PatchBodies == {EmptyObject, PartialGenreId, BadTitle}
PathIds == {Uuid(k) : k \in 1..(NSeed + MaxCreates)}
Origins == {NoOrigin, "http://localhost:8080", "https://evil.example"}
GenreQueries == {NoGenre, "ACTION"}

Request(method, path, id, body, genre, origin) ==
    [method |-> method, path |-> path, id |-> id, body |-> body,
     genre |-> genre, origin |-> origin]

\* --------------------------------------------------------------- responses
\* The response the client receives. `kind` tells which of movie / list /
\* issues / text is the body. `sentTwice` is TRUE when the handler called
\* res.status(..).json(..) again after the response was sent (that second
\* call throws ERR_HTTP_HEADERS_SENT and changes nothing the client sees).
Response(status, kind, movie, list, issues, text, headers, sentTwice) ==
    [status |-> status, kind |-> kind, movie |-> movie, list |-> list,
     issues |-> issues, text |-> text, headers |-> headers,
     sentTwice |-> sentTwice]

JsonMovie(status, movie, headers) ==
    Response(status, "movie", movie, <<>>, <<>>, "", headers, FALSE)
JsonList(status, list, headers) ==
    Response(status, "list", EmptyObject, list, <<>>, "", headers, FALSE)
JsonMessage(status, text, headers) ==
    Response(status, "message", EmptyObject, <<>>, <<>>, text, headers, FALSE)
JsonError(status, issues, sentTwice) ==
    Response(status, "error", EmptyObject, <<>>, issues, "", EmptyObject, sentTwice)
Html(status, text, headers) ==
    Response(status, "html", EmptyObject, <<>>, <<>>, text, headers, FALSE)

\* ---------------------------------------------------------------- helpers
\* Mutant: the found check dropped, so that -1 reaches the array (where
\* splice(-1, 1) and at(-1) address the last element).
FindIndexOrLast(list, id) ==
    IF \E i \in 1..Len(list) : list[i].id = id
    THEN CHOOSE i \in 1..Len(list) :
            /\ list[i].id = id
            /\ \A j \in 1..(i - 1) : list[j].id # id
    ELSE Len(list)

\* movies.findIndex(movie => movie.id === id): 0 stands for -1.
FindIndex(list, id) ==
    IF \E i \in 1..Len(list) : list[i].id = id
    THEN CHOOSE i \in 1..Len(list) :
            /\ list[i].id = id
            /\ \A j \in 1..(i - 1) : list[j].id # id
    ELSE 0

\* Mutant: removal by moving the last element into the hole.
SpliceSwapLast(list, index) ==
    [i \in 1..(Len(list) - 1) |-> IF i = index THEN list[Len(list)] ELSE list[i]]

\* Mutant: unshift instead of push.
Unshift(list, movie) == <<movie>> \o list

\* list.push(movie)
Push(list, movie) == Append(list, movie)

\* list.splice(index, 1)
Splice(list, index) ==
    [i \in 1..(Len(list) - 1) |-> IF i < index THEN list[i] ELSE list[i + 1]]

\* Mutant: every origin allowed with a wildcard.
OriginHeadersWildcard(origin) ==
    [k \in {"Access-Control-Allow-Origin"} |-> "*"]

\* The Access-Control-Allow-Origin header of the List and Delete handlers.
OriginHeaders(origin) ==
    IF origin \in ACCEPTED_ORIGINS
    THEN [k \in {"Access-Control-Allow-Origin"} |-> origin]
    ELSE EmptyObject

\* Mutant: the methods and headers advertised to every caller.
PreflightHeadersAlwaysAdvertise(origin) ==
    Spread([k \in {"Access-Control-Allow-Methods"} |-> "GET, POST, PATCH, DELETE"],
           Spread([k \in {"Access-Control-Allow-Headers"} |-> "Content-Type, Authorization"],
                  OriginHeaders(origin)))

\* The headers of the pre-flight handler. ACCEPTED_ORIGINS.includes(origin ||
\* !origin) looks up `true` when the Origin header is absent or empty.
PreflightHeaders(origin) ==
    LET probe == IF origin = NoOrigin \/ origin = "" THEN "true" ELSE origin IN
    IF probe \in ACCEPTED_ORIGINS
    THEN [k \in {"Access-Control-Allow-Origin",
                 "Access-Control-Allow-Methods",
                 "Access-Control-Allow-Headers"} |->
            CASE k = "Access-Control-Allow-Origin" -> origin
              [] k = "Access-Control-Allow-Methods" -> "GET, POST, PATCH, DELETE"
              [] k = "Access-Control-Allow-Headers" -> "Content-Type, Authorization"]
    ELSE EmptyObject

\* movie.genre.some(g => g.toLowerCase() === g.toLowerCase())
GenreMatches(movie, genre) ==
    \E i \in 1..Len(movie.genre.a) :
        ToLowerCase(movie.genre.a[i]) = ToLowerCase(movie.genre.a[i])

\* ---------------------------------------------------------------- handlers
Init ==
    /\ movies = SeedMovies
    /\ uuidCount = NSeed
    /\ req = Request("NONE", "", Str(""), EmptyObject, NoGenre, NoOrigin)
    /\ res = Html(0, "", EmptyObject)
    /\ before = SeedMovies
    /\ inserted = [i \in 1..NSeed |-> SeedMovies[i].id]
    /\ submitted = EmptyObject
    /\ wrote = FALSE

\* app.get('/')
GetRoot ==
    /\ req' = Request("GET", "/", Str(""), EmptyObject, NoGenre, NoOrigin)
    /\ res' = Html(200, "<h1>Main Page</h1>", EmptyObject)
    /\ before' = movies
    /\ wrote' = FALSE
    /\ UNCHANGED <<movies, uuidCount, inserted, submitted>>

\* The response of app.get('/movies') over the collection `list`.
ListResponse(list, genre, origin) ==
    LET headers == OriginHeaders(origin)
        filteredMovies == SelectSeq(list, LAMBDA movie : GenreMatches(movie, genre))
    IN
    IF genre # NoGenre /\ genre # ""
    THEN IF \E i \in 1..Len(list) : "genre" \notin DOMAIN list[i]
         \* movie.genre is undefined: .some throws a TypeError
         THEN Html(500, "TypeError", headers)
         ELSE JsonList(200, filteredMovies, headers)
    ELSE JsonList(200, list, headers)

\* app.get('/movies')
GetMovies(genre, origin) ==
    /\ req' = Request("GET", "/movies", Str(""), EmptyObject, genre, origin)
    /\ res' = ListResponse(movies, genre, origin)
    /\ before' = movies
    /\ wrote' = FALSE
    /\ UNCHANGED <<movies, uuidCount, inserted, submitted>>

\* app.get('/movies/:id')
GetMovieById(id) ==
    LET index == FindIndex(movies, id) IN
    /\ req' = Request("GET", "/movies/:id", id, EmptyObject, NoGenre, NoOrigin)
    /\ res' = IF index # 0
              THEN JsonMovie(200, movies[index], EmptyObject)
              ELSE Html(400, "<h1>Movie not found</h1>", EmptyObject)
    /\ before' = movies
    /\ wrote' = FALSE
    /\ UNCHANGED <<movies, uuidCount, inserted, submitted>>

\* app.post('/movies'): the 400 branch sends and does not return.
PostMovie(body) ==
    LET result == validateMovie(body)
        newId == randomUUID(uuidCount)
        newMovie == Spread([id |-> newId], result.data)
    IN
    /\ uuidCount < NSeed + MaxCreates
    /\ req' = Request("POST", "/movies", Str(""), body, NoGenre, NoOrigin)
    /\ uuidCount' = uuidCount + 1
    /\ movies' = Push(movies, newMovie)
    /\ res' = IF ~result.success
              THEN JsonError(400, result.issues, TRUE)
              ELSE JsonMovie(201, newMovie, EmptyObject)
    /\ before' = movies
    /\ inserted' = Append(inserted, newMovie.id)
    /\ wrote' = TRUE
    /\ submitted' = IF result.success
                    THEN Spread(submitted, [k \in {newMovie.id} |-> body])
                    ELSE submitted

\* app.patch('/movies/:id'): the 400 branch sends and does not return.
PatchMovie(id, body) ==
    LET result == validateMoviePartial(body)
        movieIndex == FindIndex(movies, id)
        updatedMovie == Spread(movies[movieIndex], result.data)
    IN
    /\ req' = Request("PATCH", "/movies/:id", id, body, NoGenre, NoOrigin)
    /\ before' = movies
    /\ IF movieIndex = 0
       THEN /\ res' = IF ~result.success
                      THEN JsonError(400, result.issues, TRUE)
                      ELSE JsonMessage(404, "Movie not found", EmptyObject)
            /\ UNCHANGED <<movies, submitted>>
       ELSE /\ movies' = [movies EXCEPT ![movieIndex] = updatedMovie]
            /\ res' = IF ~result.success
                      THEN JsonError(400, result.issues, TRUE)
                      ELSE JsonMovie(201, updatedMovie, EmptyObject)
            /\ submitted' = IF updatedMovie = movies[movieIndex] THEN submitted
                            ELSE [k \in DOMAIN submitted \ {id} |-> submitted[k]]
    /\ wrote' = (movieIndex # 0)
    /\ UNCHANGED <<uuidCount, inserted>>

\* Mutant: the gate refusing the operation to callers it does not list.
DeleteOutcomeRefusesUnlisted(list, id, origin) ==
    LET headers == OriginHeaders(origin)
        movieIndex == FindIndex(list, id)
    IN
    IF origin \notin ACCEPTED_ORIGINS
    THEN [movies |-> list, res |-> JsonMessage(403, "Forbidden", headers)]
    ELSE IF movieIndex = 0
    THEN [movies |-> list, res |-> JsonMessage(404, "Movie not found", headers)]
    ELSE [movies |-> Splice(list, movieIndex),
          res |-> JsonMessage(200, "Movie deleted", headers)]

\* The collection and the response app.delete('/movies/:id') leaves.
DeleteOutcome(list, id, origin) ==
    LET headers == OriginHeaders(origin)
        movieIndex == FindIndex(list, id)
    IN
    IF movieIndex = 0
    THEN [movies |-> list, res |-> JsonMessage(404, "Movie not found", headers)]
    ELSE [movies |-> Splice(list, movieIndex),
          res |-> JsonMessage(200, "Movie deleted", headers)]

\* app.delete('/movies/:id')
DeleteMovie(id, origin) ==
    LET outcome == DeleteOutcome(movies, id, origin) IN
    /\ req' = Request("DELETE", "/movies/:id", id, EmptyObject, NoGenre, origin)
    /\ before' = movies
    /\ movies' = outcome.movies
    /\ res' = outcome.res
    /\ submitted' = IF FindIndex(movies, id) = 0 THEN submitted
                    ELSE [k \in DOMAIN submitted \ {id} |-> submitted[k]]
    /\ wrote' = (FindIndex(movies, id) # 0)
    /\ UNCHANGED <<uuidCount, inserted>>

\* app.options('/movies/:id'): includes(origin || !origin), then res.send(200).
\* The handler never reads req.params.id.
OptionsMovie(id, origin) ==
    /\ req' = Request("OPTIONS", "/movies/:id", id, EmptyObject, NoGenre, origin)
    /\ res' = Html(200, "OK", PreflightHeaders(origin))
    /\ before' = movies
    /\ wrote' = FALSE
    /\ UNCHANGED <<movies, uuidCount, inserted, submitted>>

Next ==
    \/ GetRoot
    \/ \E genre \in GenreQueries, origin \in Origins : GetMovies(genre, origin)
    \/ \E id \in PathIds : GetMovieById(id)
    \/ \E body \in PostBodies : PostMovie(body)
    \/ \E id \in PathIds, body \in PatchBodies : PatchMovie(id, body)
    \/ \E id \in PathIds, origin \in Origins : DeleteMovie(id, origin)
    \/ \E id \in PathIds, origin \in Origins : OptionsMovie(id, origin)

Spec == Init /\ [][Next]_vars

\* ------------------------------------------------------- claim vocabulary
IdsOf(list) == {list[i].id : i \in 1..Len(list)}
Range(seq) == {seq[i] : i \in 1..Len(seq)}
HasId(list, id) == \E i \in 1..Len(list) : list[i].id = id

\* A resource with every schema field and the id, each within its constraint.
SatisfiesFullSchema(movie) ==
    /\ DOMAIN movie = SchemaKeySet \cup {"id"}
    /\ movie.id.type = "string"
    /\ movie.title.type = "string"
    /\ movie.director.type = "string"
    /\ movie.year.type = "number" /\ IsInt(movie.year)
    /\ movie.year.n >= 1900 /\ movie.year.n <= CurrentYear
    /\ movie.duration.type = "number" /\ IsInt(movie.duration)
    /\ movie.duration.n > 0
    /\ movie.genre.type = "array"
    /\ \A i \in 1..Len(movie.genre.a) : movie.genre.a[i] \in GenreEnum
    /\ movie.rating.type = "number"
    /\ Tenths(movie.rating) >= 0 /\ Tenths(movie.rating) <= 100

\* C1: every resource in the collection satisfies the full schema, in every
\* reachable state. (Stated as the claim states it; the code violates it.)
C1_StoredSatisfySchema ==
    \A i \in 1..Len(movies) : SatisfiesFullSchema(movies[i])

\* C2: a POST whose body validateMovie rejects is answered 400 with the
\* validation error and leaves the collection as it was; a POST inserts and
\* answers 201 only when validation succeeded. (Stated as the claim states
\* it; the code violates it.)
C2_RejectedPostInsertsNothing ==
    req.method = "POST" =>
        IF validateMovie(req.body).success
        THEN res.status = 201 /\ Len(movies) = Len(before) + 1
        ELSE /\ res.status = 400
             /\ res.kind = "error"
             /\ res.issues = validateMovie(req.body).issues
             /\ movies = before

\* C3: an id enters the collection only through a POST, and then it is an id
\* that was never in the collection before (seeded, created or since deleted);
\* the ids of the stored resources are pairwise distinct.
C3_IdsFreshAndDistinct ==
    /\ \A i, j \in 1..Len(inserted) : i # j => inserted[i] # inserted[j]
    /\ \A i, j \in 1..Len(movies) : i # j => movies[i].id # movies[j].id
    /\ IdsOf(movies) \subseteq Range(inserted)
    /\ \A id \in IdsOf(movies) \ IdsOf(before) :
          /\ req.method = "POST"
          /\ id = inserted[Len(inserted)]
          /\ \A k \in 1..(Len(inserted) - 1) : inserted[k] # id

\* C3 happens: a POST has stored a resource after another one was deleted.
C3_Witness ==
    /\ req.method = "POST"
    /\ Len(movies) >= 2
    /\ \E k \in 1..Len(inserted) : inserted[k] \notin IdsOf(movies)

\* C4: the id in a request body never decides a stored id. After a POST the
\* new resource carries the generated id; after a PATCH on an existing
\* resource that resource has the id it had, whatever the body.
C4_ClientIdIgnored ==
    /\ req.method = "POST" =>
          /\ Len(movies) = Len(before) + 1
          /\ movies[Len(movies)].id = Uuid(uuidCount)
          /\ ~HasId(before, movies[Len(movies)].id)
    /\ (req.method = "PATCH" /\ HasId(before, req.id)) =>
          /\ Len(movies) = Len(before)
          /\ \A i \in 1..Len(before) : movies[i].id = before[i].id

\* C4 happens: a PATCH on an existing resource carried another id in its body
\* and was accepted.
C4_Witness ==
    /\ req.method = "PATCH"
    /\ HasId(before, req.id)
    /\ "id" \in DOMAIN req.body
    /\ req.body.id # req.id
    /\ res.status = 201

\* C5: a PATCH on an existing id with a body validateMoviePartial accepts is a
\* shallow merge: the resource at that position has the body's value for each
\* schema field in the body and its previous value (or absence) for the
\* others; all other positions are as before; the response is 201 with the
\* merged resource.
C5_PatchShallowMerge ==
    (/\ req.method = "PATCH"
     /\ HasId(before, req.id)
     /\ validateMoviePartial(req.body).success) =>
        /\ Len(movies) = Len(before)
        /\ \E idx \in 1..Len(before) :
              /\ before[idx].id = req.id
              /\ \A j \in 1..Len(before) : j # idx => movies[j] = before[j]
              /\ \A k \in SchemaKeySet :
                    IF k \in DOMAIN req.body
                    THEN k \in DOMAIN movies[idx] /\ movies[idx][k] = req.body[k]
                    ELSE /\ (k \in DOMAIN movies[idx]) <=> (k \in DOMAIN before[idx])
                         /\ k \in DOMAIN before[idx] => movies[idx][k] = before[idx][k]
              /\ res.status = 201
              /\ res.kind = "movie"
              /\ res.movie = movies[idx]

\* C5 happens: an accepted PATCH replaced the genre of a resource that is
\* neither the only one nor the last one.
C5_Witness ==
    /\ req.method = "PATCH"
    /\ res.status = 201
    /\ "genre" \in DOMAIN req.body
    /\ Len(before) >= 2
    /\ before[1].id = req.id
    /\ "genre" \in DOMAIN before[1]
    /\ movies[1].genre # before[1].genre
    /\ movies[1].rating = before[1].rating

\* C6: for an id that matches no resource, GET /movies/:id answers with a
\* client-error status, PATCH with an accepted body and DELETE answer 404
\* with the message 'Movie not found', and the collection is as it was.
C6_UnknownIdReportsAbsence ==
    (req.path = "/movies/:id" /\ ~HasId(before, req.id)) =>
        /\ req.method = "GET" =>
              res.status \in 400..499 /\ res.kind = "html" /\ movies = before
        /\ (req.method = "PATCH" /\ validateMoviePartial(req.body).success) =>
              /\ res.status = 404
              /\ res.kind = "message"
              /\ res.text = "Movie not found"
              /\ movies = before
        /\ req.method = "DELETE" =>
              /\ res.status = 404
              /\ res.kind = "message"
              /\ res.text = "Movie not found"
              /\ movies = before

\* C6 happens: an accepted, non-empty PATCH body was sent to an id that is not
\* in a collection of at least two resources.
C6_Witness ==
    /\ req.method = "PATCH"
    /\ ~HasId(before, req.id)
    /\ "genre" \in DOMAIN req.body
    /\ res.status = 404
    /\ Len(before) >= 2

\* C7: a DELETE on a present id removes the resource with that id and nothing
\* else: one resource fewer, none with that id left, the others unchanged and
\* in the order they had.
C7_DeleteRemovesExactlyOne ==
    (req.method = "DELETE" /\ HasId(before, req.id)) =>
        /\ Len(movies) = Len(before) - 1
        /\ ~HasId(movies, req.id)
        /\ \E idx \in 1..Len(before) :
              /\ before[idx].id = req.id
              /\ \A i \in 1..Len(movies) :
                    movies[i] = IF i < idx THEN before[i] ELSE before[i + 1]

\* C7 happens: the first of three resources was deleted.
C7_Witness ==
    /\ req.method = "DELETE"
    /\ Len(before) = 3
    /\ before[1].id = req.id
    /\ Len(movies) = 2

\* The resource a body accepted by validateMovie is stored as, under `id`.
StoredForm(body, id) ==
    [k \in SchemaKeySet \cup {"id"} |->
        IF k = "id" THEN id
        ELSE IF k \in DOMAIN body THEN body[k]
        ELSE Num(5, 0)]

\* C8: as long as no PATCH has changed and no DELETE has removed it, the
\* resource created by an accepted POST is in the collection with the
\* submitted value of every schema field, rating 5 where the submission had
\* none, and the returned id; GET /movies/:id with that id answers 200 with
\* that resource.
C8_PostThenGetRoundTrip ==
    /\ \A id \in DOMAIN submitted :
          /\ HasId(movies, id)
          /\ \A i \in 1..Len(movies) :
                movies[i].id = id => movies[i] = StoredForm(submitted[id], id)
    /\ (req.method = "GET" /\ req.path = "/movies/:id" /\ req.id \in DOMAIN submitted) =>
          /\ res.status = 200
          /\ res.kind = "movie"
          /\ res.movie = StoredForm(submitted[req.id], req.id)

\* C8 happens: a GET fetched a resource whose submission had no rating.
C8_Witness ==
    /\ req.method = "GET"
    /\ req.path = "/movies/:id"
    /\ req.id \in DOMAIN submitted
    /\ "rating" \notin DOMAIN submitted[req.id]
    /\ res.status = 200
    /\ res.movie.rating = Num(5, 0)

\* The place of an id in the insertion history.
InsertedAt(id) == CHOOSE k \in 1..Len(inserted) : inserted[k] = id

\* C9: the collection is always in insertion order (seeded resources first,
\* then created ones in the order of their POSTs), and GET /movies without a
\* genre answers 200 with the whole collection in that order and leaves it
\* as it was.
C9_ListInInsertionOrder ==
    /\ IdsOf(movies) \subseteq Range(inserted)
    /\ \A i, j \in 1..Len(movies) :
          i < j => InsertedAt(movies[i].id) < InsertedAt(movies[j].id)
    /\ (req.method = "GET" /\ req.path = "/movies" /\ req.genre = NoGenre) =>
          /\ res.status = 200
          /\ res.kind = "list"
          /\ res.list = movies
          /\ movies = before

\* C9 happens: the list was read after two POSTs, a DELETE and a PATCH that
\* changed a resource.
C9_Witness ==
    /\ req.method = "GET" /\ req.path = "/movies" /\ req.genre = NoGenre
    /\ Len(inserted) = 3
    /\ Len(movies) = 2
    /\ movies[1].id = inserted[2]
    /\ "genre" \in DOMAIN movies[1]
    /\ movies[1].genre = Arr(<<"crime">>)
    /\ DOMAIN submitted = {inserted[3]}
    /\ Len(res.list) = 2

\* C10: GET /movies?genre=tag answers with exactly the stored resources one
\* of whose genre tags equals the tag ignoring case. (Stated as the claim
\* states it; the code violates it.)
C10_GenreFilterMatchesQuery ==
    (/\ req.method = "GET" /\ req.path = "/movies"
     /\ req.genre # NoGenre /\ req.genre # ""
     /\ res.kind = "list") =>
        res.list = SelectSeq(before, LAMBDA movie :
                        \E i \in 1..Len(movie.genre.a) :
                            ToLowerCase(movie.genre.a[i]) = ToLowerCase(req.genre))

\* The requests whose handlers apply the origin gate.
IsGated ==
    \/ req.method = "GET" /\ req.path = "/movies"
    \/ req.method = "DELETE"
    \/ req.method = "OPTIONS"

\* C11: the response of the List, Delete and Pre-flight handlers carries
\* Access-Control-Allow-Origin exactly when the request's Origin is in the
\* allow-list, and then with that very origin as its value; for an absent or
\* unlisted origin the response carries no Access-Control-* header at all.
C11_AllowOriginIffListed ==
    IsGated =>
        /\ ("Access-Control-Allow-Origin" \in DOMAIN res.headers)
              <=> (req.origin \in ACCEPTED_ORIGINS)
        /\ "Access-Control-Allow-Origin" \in DOMAIN res.headers =>
              res.headers["Access-Control-Allow-Origin"] = req.origin
        /\ req.origin \notin ACCEPTED_ORIGINS => DOMAIN res.headers = {}

\* C11 happens: a DELETE from a listed origin removed a resource and was
\* answered with that origin allowed.
C11_Witness ==
    /\ req.method = "DELETE"
    /\ res.status = 200
    /\ req.origin = "http://localhost:8080"
    /\ DOMAIN res.headers = {"Access-Control-Allow-Origin"}
    /\ res.headers["Access-Control-Allow-Origin"] = "http://localhost:8080"

\* What a response tells apart from its Access-Control-* headers.
StatusAndBody(r) ==
    [status |-> r.status, kind |-> r.kind, movie |-> r.movie, list |-> r.list,
     issues |-> r.issues, text |-> r.text]

\* The collection and the response the request in hand leaves over `before`
\* when it is sent with the Origin header `origin` instead of its own.
WithOrigin(origin) ==
    CASE req.method = "GET" /\ req.path = "/movies" ->
            [movies |-> before, res |-> ListResponse(before, req.genre, origin)]
      [] req.method = "DELETE" -> DeleteOutcome(before, req.id, origin)
      [] req.method = "OPTIONS" ->
            [movies |-> before, res |-> Html(200, "OK", PreflightHeaders(origin))]

\* C12: the Origin header does not decide the outcome. The request in hand,
\* sent over the same collection with any other Origin header (listed,
\* unlisted or absent), gets the same status and body and leaves the same
\* collection; only the Access-Control-* headers may differ.
C12_OriginDoesNotDecideOutcome ==
    IsGated =>
        \A origin \in Origins :
            /\ StatusAndBody(WithOrigin(origin).res) = StatusAndBody(res)
            /\ WithOrigin(origin).movies = movies

\* C12 happens: a DELETE without an Origin header removed a resource, and
\* the same DELETE from a listed origin would carry other headers.
C12_Witness ==
    /\ req.method = "DELETE"
    /\ req.origin = NoOrigin
    /\ res.status = 200
    /\ Len(movies) = Len(before) - 1
    /\ WithOrigin("http://localhost:8080").res.headers # res.headers

\* --------------------------------------------------- the validator alone
\* A specification of the two validators as pure functions: Init draws a
\* candidate and a mode, the one action applies the validator to it. The
\* candidate is held in req.body, the mode in req.path, the result in res.
Absent == [type |-> "absent", s |-> "", n |-> 0, d |-> 0, a |-> <<>>]
TitleValues == {Absent, Str("X"), Num(5, 0)}
YearValues ==
    {Absent, Num(1899, 0), Num(1900, 0), Num(2000, 0), Num(2000, 5),
     Num(CurrentYear, 0), Num(CurrentYear + 1, 0), Str("2000")}
DirectorValues == {Absent, Str("D"), Arr(<<>>)}
DurationValues == {Absent, Num(-1, 0), Num(0, 0), Num(0, 5), Num(1, 0), Num(90, 0)}
GenreValues ==
    {Absent, Arr(<<>>), Arr(<<"drama">>), Arr(<<"sci-fi", "horror">>),
     Arr(<<"Drama">>), Str("drama")}
RatingValues ==
    {Absent, Num(-1, 9), Num(0, 0), Num(7, 5), Num(10, 0), Num(10, 1), Str("5")}

\* The object with the keys whose value is not Absent.
Candidate(title, year, director, duration, genre, rating) ==
    LET all == [title |-> title, year |-> year, director |-> director,
                duration |-> duration, genre |-> genre, rating |-> rating]
    IN [k \in {key \in DOMAIN all : all[key] # Absent} |-> all[k]]

Candidates ==
    {Candidate(t, y, di, du, g, r) :
        t \in TitleValues, y \in YearValues, di \in DirectorValues,
        du \in DurationValues, g \in GenreValues, r \in RatingValues}

InitValidate ==
    /\ movies = SeedMovies
    /\ uuidCount = NSeed
    /\ before = SeedMovies
    /\ inserted = [i \in 1..NSeed |-> SeedMovies[i].id]
    /\ submitted = EmptyObject
    /\ wrote = FALSE
    /\ \E candidate \in Candidates, mode \in {"full", "partial"} :
          req = Request("VALIDATE", mode, Str(""), candidate, NoGenre, NoOrigin)
    /\ res = Html(0, "", EmptyObject)

\* validateMovie(req.body) or validateMoviePartial(req.body)
ApplyValidate ==
    LET result == IF req.path = "full" THEN validateMovie(req.body)
                                       ELSE validateMoviePartial(req.body)
    IN
    /\ req.method = "VALIDATE"
    /\ res.kind = "html"
    /\ res' = IF result.success
              THEN Response(0, "data", result.data, <<>>, <<>>, "", EmptyObject, FALSE)
              ELSE Response(0, "error", EmptyObject, <<>>, result.issues, "",
                            EmptyObject, FALSE)
    /\ UNCHANGED <<movies, uuidCount, req, before, inserted, submitted, wrote>>

NextValidate == ApplyValidate

SpecValidate == InitValidate /\ [][NextValidate]_vars

\* The acceptance condition of validateFull as C13 words it.
AcceptableFull(c) ==
    /\ {"title", "year", "director", "duration", "genre"} \subseteq DOMAIN c
    /\ c.title.type = "string"
    /\ c.director.type = "string"
    /\ c.year.type = "number" /\ c.year.d = 0
    /\ c.year.n >= 1900 /\ c.year.n <= CurrentYear
    /\ c.duration.type = "number" /\ c.duration.d = 0 /\ c.duration.n > 0
    /\ c.genre.type = "array"
    /\ \A i \in 1..Len(c.genre.a) :
          c.genre.a[i] \in {"action", "adventure", "sci-fi", "fantasy", "drama", "crime"}
    /\ \/ "rating" \notin DOMAIN c
       \/ /\ c.rating.type = "number"
          /\ 10 * c.rating.n + c.rating.d >= 0
          /\ 10 * c.rating.n + c.rating.d <= 100

C14_EmptyPatchChangesNothing ==
    (req.method = "PATCH" /\ req.body = EmptyObject /\ HasId(before, req.id)) =>
        /\ res.status = 201
        /\ res.kind = "movie"
        /\ res.movie.id = req.id
        /\ res.movie \in Range(before)
        /\ movies = before

\* C14 happens: {} was sent to a resource whose rating is not 5, which kept
\* its rating.
C14_Witness ==
    /\ req.method = "PATCH"
    /\ req.body = EmptyObject
    /\ res.status = 201
    /\ "rating" \in DOMAIN res.movie
    /\ res.movie.rating = Num(9, 3)
    /\ movies = before

\* C15: a PATCH whose body validateMoviePartial rejects is answered 400
\* with the validation error, the update is not carried out (no lookup-and-
\* write of the resource), and the collection is as it was, whether or not
\* the id exists. (Stated as the claim states it; the code violates it.)
C15_RejectedPatchDoesNotUpdate ==
    (req.method = "PATCH" /\ ~validateMoviePartial(req.body).success) =>
        /\ res.status = 400
        /\ res.kind = "error"
        /\ res.issues = validateMoviePartial(req.body).issues
        /\ ~wrote
        /\ movies = before

\* C17: no handler sets a status or sends a body after the response to its
\* request was sent. (Stated as the claim states it; the code violates it.)
C17_OneResponsePerRequest ==
    ~res.sentTwice

\* C16: the pre-flight answers 200 for every origin (listed, unlisted,
\* absent) and every id, writes nothing, and advertises
\* Access-Control-Allow-Methods 'GET, POST, PATCH, DELETE' and
\* Access-Control-Allow-Headers 'Content-Type, Authorization' exactly when
\* the origin is in the allow-list.
C16_PreflightAlways200 ==
    req.method = "OPTIONS" =>
        /\ res.status = 200
        /\ movies = before
        /\ ~wrote
        /\ ("Access-Control-Allow-Methods" \in DOMAIN res.headers)
              <=> (req.origin \in ACCEPTED_ORIGINS)
        /\ ("Access-Control-Allow-Headers" \in DOMAIN res.headers)
              <=> (req.origin \in ACCEPTED_ORIGINS)
        /\ req.origin \in ACCEPTED_ORIGINS =>
              /\ res.headers["Access-Control-Allow-Methods"] = "GET, POST, PATCH, DELETE"
              /\ res.headers["Access-Control-Allow-Headers"] = "Content-Type, Authorization"

\* C16 happens: a pre-flight from an unlisted origin for an id that is not in
\* the collection was answered 200 with no header.
C16_Witness ==
    /\ req.method = "OPTIONS"
    /\ req.origin = "https://evil.example"
    /\ ~HasId(movies, req.id)
    /\ Len(movies) >= 1
    /\ res.status = 200
    /\ DOMAIN res.headers = {}

====
